---- MODULE Spec2Model ----
(***************************************************************************)
(* Model of gpu.h (gpu.cpp): the tensor pool, kernels and their one-shot   *)
(* command buffers, and the asynchronous submit / readback bridge          *)
(* (DispatchKernel, Wait, ToCPU, ToGPU) on top of the WebGPU C API.        *)
(*                                                                         *)
(* A single caller thread drives the API (pc); the device runs the queue   *)
(* on its own timeline (DeviceExecute, DeviceMap).  Callbacks are          *)
(* delivered by wgpuInstanceProcessEvents, which the code calls from Wait. *)
(* Handles (buffers, command buffers, promises) are numbered in the order  *)
(* they are created; 0 is the null handle.  Sizes are counted in float     *)
(* elements (4 bytes each).                                                *)
(***************************************************************************)
EXTENDS Integers, Sequences, FiniteSets, TLC

\* ---------------------------------------------------------------- bounds
MaxBuffers == 6      \* device buffers created in one run
MaxElems == 2        \* elements of a tensor
MaxVal == 1          \* host floats take the values 0..MaxVal
MaxInputs == 1       \* input tensors of a kernel
MaxKernels == 1      \* kernels created in one run
MaxCmds == 3         \* command buffers encoded in one run
MaxPromises == 2     \* promises created in one run
MaxQueue == 2        \* operations pending on the device queue
MaxReleases == 2     \* wgpuBufferRelease calls counted per buffer
MaxTransferTensors == 1  \* tensors created in a run with kernels and transfers
MaxParams == 1       \* elements of a kernel's parameter block
MaxRank == 4         \* rank of a dispatch geometry
SizeBits == 11       \* width of size_t, in bits
MaxLen == 6          \* characters of a shader template

Handles == 1..MaxBuffers
Cmds == 1..MaxCmds
Promises == 1..MaxPromises
Vals == 0..MaxVal
Sizes == 1..MaxElems
Arrays(n) == [1..n -> Vals]
Zeros(n) == [i \in 1..n |-> 0]
\* marker for "no host write issued since the contents last became unknown"
Unknown == << >>

VARIABLES
  pc,           \* caller position: "idle", "wait" (inside Wait), "done";
                \* "crashed", "exited", "aborted" when the process has ended
  waiting,      \* [promise, inToCPU]: the future Wait is spinning on
  nextBuf,      \* next handle wgpuDeviceCreateBuffer returns
  liveBufs,     \* buffers created and not yet released
  releaseCount, \* wgpuBufferRelease calls per buffer
  tensorBufs,   \* buffers created inside CreateTensor
  content,      \* device contents of each buffer
  pool,         \* TensorPool::data, buffer handle -> Tensor
  tensors,      \* Tensor values CreateTensor has returned to the caller
  warnings,     \* kWarn messages logged by the last FreeTensor / teardown
  keys,         \* key snapshot taken by ~TensorPool
  kernels,      \* Kernel values the caller holds
  nextCmd,      \* next command buffer wgpuCommandEncoderFinish returns
  submitCount,  \* wgpuQueueSubmit calls per command buffer
  queue,        \* operations submitted to the queue and not yet executed
  callbacks,    \* registered wgpuQueueOnSubmittedWorkDone callbacks
  nextPromise,  \* next std::promise the caller (or ToCPU) constructs
  resolved,     \* promises on which set_value has been called
  setCount,     \* set_value calls per promise
  op,           \* ToCPU's CopyOp / CallbackDataDyn
  dest,         \* the caller's destination array of the current ToCPU
  argCopy,      \* the by-value std::array parameter of the array overload
  lastIssued,   \* data of the last ToGPU issued per buffer (or Unknown)
  futures,      \* promises whose future the caller holds (from dispatches)
  reencoded,    \* kernels whose command buffer was encoded since their
                \* last dispatch
  hist,         \* last operations of the caller (for CreateTensor/FreeTensor)
  kDebug,       \* the build: TRUE unless NDEBUG is defined
  ctxpc,        \* position of the Context: "start", "instance", "adapter",
                \* "device" inside CreateContext, then "returned", "destroyed"
  context,      \* the Context's instance, adapter, device, queue (0 is null)
  requestEnded, \* request stages whose requestEnded flag has been set
  pending,      \* request callbacks the API has not delivered yet
  ctxLog,       \* what the last run of ~Context did, in order
  rootReleases, \* release calls per root handle
  copied,       \* CreateContext's return copied its local Context
  kernelPool,   \* KernelPool::data, the registered Kernel addresses
  created,      \* what the last CreateKernel handed to the device: layout
                \* entries, bind group entries, parameter buffer write
  shader,       \* CreateShader: its arguments, codeString and position
  sized         \* a Shape with its element count and byte size

vars == <<pc, waiting, nextBuf, liveBufs, releaseCount, tensorBufs, content,
          pool, tensors, warnings, keys, kernels, nextCmd, submitCount, queue,
          callbacks, nextPromise, resolved, op, dest, argCopy, lastIssued,
          futures, reencoded, hist, kDebug, ctxpc, context, requestEnded,
          pending, ctxLog, rootReleases, copied, kernelPool, created,
          setCount, shader, sized>>

poolVars == <<nextBuf, liveBufs, releaseCount, tensorBufs, pool, tensors,
              warnings, keys>>
kernelVars == <<kernels, nextCmd, submitCount, reencoded>>
deviceVars == <<content, queue, callbacks, lastIssued>>
asyncVars == <<waiting, nextPromise, resolved, setCount, op, dest, argCopy>>
pureVars == <<shader, sized>>
ctxVars == <<kDebug, ctxpc, context, requestEnded, pending, ctxLog,
             rootReleases, copied>>
buildVars == <<kernelPool, created>>

NullTensor == [buffer |-> 0, size |-> 0]
NoOp == [stage |-> "none", readbackBuffer |-> 0, bufferSize |-> 0,
         promise |-> 0, output |-> "none", tensor |-> 0, written |-> Unknown]
NoHist == [last |-> "none", tensor |-> NullTensor, before |-> << >>]
NoWait == [promise |-> 0, inToCPU |-> FALSE]
NoShader == [shaderTemplate |-> << >>, workgroupSize |-> << >>,
             codeString |-> << >>, start_pos |-> 0, at |-> "none"]
NoSized == [shape |-> << >>, numels |-> 0, bytes |-> 0, at |-> "none"]
RootSet == {"queue", "device", "adapter", "instance"}
Stages == {"adapter", "device"}
NullContext == [instance |-> 0, adapter |-> 0, device |-> 0, queue |-> 0]
ReadyContext == [instance |-> 1, adapter |-> 1, device |-> 1, queue |-> 1]
NoBuild == [inputs |-> << >>, params |-> << >>,
            numTensors |-> 0, paramsSize |-> 0, nThreads |-> << >>,
            workgroupSize |-> << >>, bgLayoutEntries |-> << >>,
            bindGroupEntries |-> << >>]

InitState ==
  /\ pc = "idle"
  /\ waiting = NoWait
  /\ nextBuf = 1
  /\ liveBufs = {}
  /\ releaseCount = [b \in Handles |-> 0]
  /\ tensorBufs = {}
  /\ content = [b \in Handles |-> << >>]
  /\ pool = << >>
  /\ tensors = {}
  /\ warnings = {}
  /\ keys = {}
  /\ kernels = << >>
  /\ nextCmd = 1
  /\ submitCount = [c \in Cmds |-> 0]
  /\ queue = << >>
  /\ callbacks = {}
  /\ nextPromise = 1
  /\ resolved = {}
  /\ setCount = [p \in Promises |-> 0]
  /\ op = NoOp
  /\ dest = << >>
  /\ argCopy = << >>
  /\ lastIssued = [b \in Handles |-> Unknown]
  /\ futures = {}
  /\ reencoded = {}
  /\ hist = NoHist
  /\ kernelPool = {}
  /\ created = NoBuild
  /\ pending = {}
  /\ ctxLog = << >>
  /\ rootReleases = [h \in RootSet |-> 0]
  /\ copied = FALSE

\* A Context that CreateContext has returned with all four handles acquired,
\* in the default build (NDEBUG not defined).
Init ==
  /\ InitState
  /\ kDebug = TRUE
  /\ ctxpc = "returned"
  /\ context = ReadyContext
  /\ requestEnded = Stages
  /\ shader = NoShader
  /\ sized = NoSized

\* The same Context in either build.
InitAnyBuild ==
  /\ InitState
  /\ kDebug \in BOOLEAN
  /\ ctxpc = "returned"
  /\ context = ReadyContext
  /\ requestEnded = Stages
  /\ shader = NoShader
  /\ sized = NoSized

\* Before CreateContext is called, in either build.
InitContext ==
  /\ InitState
  /\ kDebug \in BOOLEAN
  /\ ctxpc = "start"
  /\ context = NullContext
  /\ requestEnded = {}
  /\ shader = NoShader
  /\ sized = NoSized

\* ------------------------------------------------------------ TensorPool
\* std::unordered_map operations on pool.data
MapPut(m, k, v) == [x \in (DOMAIN m) \cup {k} |-> IF x = k THEN v ELSE m[x]]
MapErase(m, k) == [x \in (DOMAIN m) \ {k} |-> m[x]]

\* CreateTensor: one buffer is created and registered under its handle; the
\* call on line 298 creates a second buffer of the same descriptor whose
\* handle is dropped.  The handle is not looked at: when buffer creation
\* fails (null) the tensor is registered under the null handle.
CreateTensor(n, null) ==
  /\ pc = "idle"
  /\ nextBuf + 1 <= MaxBuffers
  /\ LET buffer == IF null THEN 0 ELSE nextBuf
         second == IF null THEN 0 ELSE nextBuf + 1
         made == {buffer, second} \ {0}
         t == [buffer |-> buffer, size |-> n]
     IN /\ pool' = MapPut(pool, buffer, t)
        /\ nextBuf' = nextBuf + Cardinality(made)
        /\ liveBufs' = liveBufs \cup made
        /\ tensorBufs' = tensorBufs \cup made
        /\ content' = [b \in Handles |->
                         IF b \in made THEN Zeros(n) ELSE content[b]]
        /\ tensors' = tensors \cup {pool'[buffer]}
        /\ hist' = [NoHist EXCEPT !.last = "create",
                                  !.tensor = pool'[buffer], !.before = pool]
  /\ warnings' = {}
  /\ UNCHANGED <<pureVars, ctxVars, buildVars, pc, releaseCount, keys,
                 kernelVars, queue, callbacks, lastIssued, asyncVars,
                 futures>>

\* (variant) the buffer is released but its pool entry is kept
FreeTensorKeepsEntry(st, tensor) ==
  LET rel == tensor.buffer # 0
  IN [pool |-> st.pool,
      releaseCount |->
        IF rel THEN [st.releaseCount EXCEPT ![tensor.buffer] = @ + 1]
        ELSE st.releaseCount,
      liveBufs |-> IF rel THEN st.liveBufs \ {tensor.buffer} ELSE st.liveBufs,
      warnings |-> st.warnings]

\* (variant) a buffer that a kernel still binds is neither released nor
\* erased
FreeTensorSparesBound(st, tensor) ==
  LET bound == \E k \in 1..Len(kernels) : \E i \in 1..Len(kernels[k].buffers) :
                 kernels[k].buffers[i] = tensor.buffer
      rel == tensor.buffer # 0 /\ ~bound
      inPool == tensor.buffer \in DOMAIN st.pool /\ ~bound
  IN [pool |-> IF inPool THEN MapErase(st.pool, tensor.buffer) ELSE st.pool,
      releaseCount |->
        IF rel THEN [st.releaseCount EXCEPT ![tensor.buffer] = @ + 1]
        ELSE st.releaseCount,
      liveBufs |-> IF rel THEN st.liveBufs \ {tensor.buffer} ELSE st.liveBufs,
      warnings |-> st.warnings]

\* The body of FreeTensor on the state st = [pool, releaseCount, liveBufs,
\* warnings]: the buffer is released whenever its handle is non-null, the
\* pool entry is erased whenever the handle is a key.
FreeTensorBody(st, tensor) ==
  LET rel == tensor.buffer # 0
      inPool == tensor.buffer \in DOMAIN st.pool
  IN [pool |-> IF inPool THEN MapErase(st.pool, tensor.buffer) ELSE st.pool,
      releaseCount |->
        IF rel THEN [st.releaseCount EXCEPT ![tensor.buffer] = @ + 1]
        ELSE st.releaseCount,
      liveBufs |-> IF rel THEN st.liveBufs \ {tensor.buffer} ELSE st.liveBufs,
      warnings |-> st.warnings
                   \cup (IF rel THEN {} ELSE {"null buffer"})
                   \cup (IF inPool THEN {} ELSE {"not in pool"})]

PoolState == [pool |-> pool, releaseCount |-> releaseCount,
              liveBufs |-> liveBufs, warnings |-> {}]

\* FreeTensor called by the caller.  When the handle is non-null but the
\* buffer has already been released, wgpuBufferRelease is handed a dangling
\* handle: the call may return as usual or bring the process down.
FreeTensor(tensor) ==
  /\ pc = "idle"
  /\ tensor.buffer # 0 => releaseCount[tensor.buffer] < MaxReleases
  /\ \/ /\ LET st == FreeTensorBody(PoolState, tensor)
           IN /\ pool' = st.pool
              /\ releaseCount' = st.releaseCount
              /\ liveBufs' = st.liveBufs
              /\ warnings' = st.warnings
        /\ pc' = pc
     \/ /\ tensor.buffer # 0
        /\ tensor.buffer \notin liveBufs
        /\ releaseCount' = [releaseCount EXCEPT ![tensor.buffer] = @ + 1]
        /\ pc' = "crashed"
        /\ warnings' = {}
        /\ UNCHANGED <<pool, liveBufs>>
  /\ hist' = IF hist.last = "create" /\ hist.tensor = tensor
             THEN [hist EXCEPT !.last = "createfree"]
             ELSE [last |-> "free", tensor |-> tensor, before |-> pool]
  /\ UNCHANGED <<pureVars, ctxVars, buildVars, nextBuf, tensorBufs, tensors,
                 keys, kernelVars, deviceVars, asyncVars, futures>>

\* (variant) the loop erases while iterating and stops after the first key
FreeAllStopsEarly(st, ks) ==
  IF ks = {} THEN st
  ELSE LET key == CHOOSE k \in ks : TRUE
       IN FreeTensorBody(st, st.pool[key])

\* ~TensorPool: snapshot the keys, then FreeTensor(*this, data[key]) for each
RECURSIVE FreeAll(_, _)
FreeAll(st, ks) ==
  IF ks = {} THEN st
  ELSE LET key == CHOOSE k \in ks : TRUE
           \* data[key] default-constructs a Tensor if the key is absent
           tensor == IF key \in DOMAIN st.pool THEN st.pool[key]
                     ELSE NullTensor
       IN FreeAll(FreeTensorBody(st, tensor), ks \ {key})

TensorPoolDestroy ==
  /\ pc = "idle"
  /\ pc' = "done"
  /\ keys' = DOMAIN pool
  /\ LET st == FreeAll(PoolState, DOMAIN pool)
     IN /\ pool' = st.pool
        /\ releaseCount' = st.releaseCount
        /\ liveBufs' = st.liveBufs
        /\ warnings' = st.warnings
  /\ hist' = NoHist
  /\ UNCHANGED <<pureVars, ctxVars, buildVars, nextBuf, tensorBufs, tensors,
                 kernelVars, deviceVars, asyncVars, futures>>

\* --------------------------------------------------------------- Context
\* check(): logs and calls exit(1) on a false condition in a debug build and
\* does nothing at all when kDebug is false.  TRUE when execution continues.
check(condition) == kDebug => condition

\* What a request (wgpuInstanceRequestAdapter, wgpuAdapterRequestDevice)
\* may do: invoke the callback inside the call or leave it for a later
\* wgpuInstanceProcessEvents, report success or not, deliver a handle or null.
Outcomes == {o \in [timing : {"inline", "later"}, success : BOOLEAN,
                    handle : {0, 1}] : o.success \/ o.handle = 0}

\* context.instance = wgpuCreateInstance(&desc); check(context.instance, ...)
CreateInstance(instance) ==
  /\ pc = "idle"
  /\ ctxpc = "start"
  /\ context' = [context EXCEPT !.instance = instance]
  /\ ctxpc' = IF check(instance # 0) THEN "instance" ELSE ctxpc
  /\ pc' = IF check(instance # 0) THEN pc ELSE "exited"
  /\ UNCHANGED <<pureVars, kDebug, requestEnded, pending, ctxLog,
                 rootReleases, copied, buildVars, poolVars, kernelVars,
                 deviceVars, asyncVars, futures, hist>>

\* One request stage of CreateContext: the request is made on the handle
\* `on`, the callback (if the API invokes it inside the call) checks the
\* status and sets the stage's data and requestEnded flag, then
\* assert(requestEnded) and the handle is copied into the context.  No
\* event-processing call is made.  A request on a null handle either brings
\* the process down or is answered with a failure.
RequestStage(stage, from, on, o, crash) ==
  /\ pc = "idle"
  /\ ctxpc = from
  /\ LET out == IF on = 0 THEN [o EXCEPT !.success = FALSE, !.handle = 0]
                ELSE o
         inline == out.timing = "inline"
         crashes == on = 0 /\ crash
         exits == ~crashes /\ inline /\ ~check(out.success)
         ended == ~crashes /\ inline /\ ~exits
         \* assert(requestEnded) is compiled out when NDEBUG is defined
         aborts == ~crashes /\ ~exits /\ kDebug /\ ~ended
         stops == crashes \/ exits \/ aborts
     IN /\ pc' = IF crashes THEN "crashed" ELSE IF exits THEN "exited"
                 ELSE IF aborts THEN "aborted" ELSE pc
        /\ requestEnded' = IF ended THEN requestEnded \cup {stage}
                           ELSE requestEnded
        /\ pending' = IF crashes \/ inline THEN pending
                      ELSE pending \cup {[stage |-> stage, outcome |-> out]}
        /\ context' = IF stops THEN context
                      ELSE [context EXCEPT
                              ![stage] = IF ended THEN out.handle ELSE 0]
        /\ ctxpc' = IF stops THEN ctxpc ELSE stage
  /\ UNCHANGED <<pureVars, kDebug, ctxLog, rootReleases, copied, buildVars,
                 poolVars, kernelVars, deviceVars, asyncVars, futures, hist>>

\* wgpuInstanceRequestAdapter(context.instance, ...) with
\* onAdapterRequestEnded
RequestAdapter(o, crash) ==
  /\ ctxpc = "instance"
  /\ RequestStage("adapter", "instance", context.instance, o, crash)

\* wgpuAdapterRequestDevice(context.adapter, ...) with onDeviceRequestEnded
RequestDevice(o, crash) ==
  /\ ctxpc = "adapter"
  /\ RequestStage("device", "adapter", context.adapter, o, crash)

Event(ev, h) == [ev |-> ev, h |-> h]

RECURSIVE Concat(_)
Concat(ss) == IF ss = << >> THEN << >> ELSE Head(ss) \o Concat(Tail(ss))

\* (variant) the pool releases the command buffers of its kernels
KernelPoolDestroyReleases ==
  <<Event("release", "commandBuffer"), Event("clear", "kernelPool")>>

\* ~KernelPool: data.clear(), and no call on any device object
KernelPoolDestroy == <<Event("clear", "kernelPool")>>

\* (variant) no event processing between the releases
DestructorEventsNoPump(c) ==
  LET guarded(h) == IF c[h] # 0 THEN <<Event("release", h)>>
                    ELSE <<Event("warn", h)>>
  IN Concat(<<guarded("queue"), guarded("device"), guarded("adapter"),
              guarded("instance")>>)
     \o <<Event("clear", "kernelPool"), Event("free", "pool")>>

\* The calls ~Context makes for the Context value c, in order: the body
\* (queue, device, adapter each released and followed by
\* wgpuInstanceProcessEvents, or a warning when null; then the instance),
\* and after the body the members in reverse order of declaration:
\* ~KernelPool (data.clear()), then ~TensorPool.
DestructorEvents(c) ==
  LET guarded(h) == IF c[h] # 0
                    THEN <<Event("release", h), Event("pump", h)>>
                    ELSE <<Event("warn", h)>>
  IN Concat(<<guarded("queue"), guarded("device"), guarded("adapter")>>)
     \o (IF c.instance # 0 THEN <<Event("release", "instance")>>
         ELSE <<Event("warn", "instance")>>)
     \o KernelPoolDestroy \o <<Event("free", "pool")>>

\* Calls whose behaviour the API leaves undefined: the release of a handle
\* that has been released before, and event processing that delivers a
\* request callback whose user data (a local of CreateContext) is gone.
UndefinedCall(e) ==
  \/ e.ev = "release" /\ e.h \in RootSet /\ rootReleases[e.h] >= 1
  \/ e.ev = "pump" /\ pending # {}

\* A run of ~Context on the value c.  An undefined call either returns or
\* (crash) ends the process there.
RunDestructor(c, crash, after) ==
  LET all == DestructorEvents(c)
      undef == {i \in 1..Len(all) : UndefinedCall(all[i])}
      crashes == crash /\ undef # {}
      log == IF crashes
             THEN SubSeq(all, 1, CHOOSE i \in undef : \A j \in undef : i <= j)
             ELSE all
      has(e) == \E i \in 1..Len(log) : log[i] = e
      st == IF has(Event("free", "pool")) THEN FreeAll(PoolState, DOMAIN pool)
            ELSE [PoolState EXCEPT !.warnings = warnings]
  IN /\ ctxLog' = log
     /\ rootReleases' = [h \in RootSet |->
                           IF has(Event("release", h))
                           THEN rootReleases[h] + 1 ELSE rootReleases[h]]
     /\ pending' = IF \E h \in RootSet : has(Event("pump", h)) /\ ~crashes
                   THEN {} ELSE pending
     /\ kernelPool' = IF has(Event("clear", "kernelPool")) THEN {}
                      ELSE kernelPool
     /\ keys' = IF has(Event("free", "pool")) THEN DOMAIN pool ELSE keys
     /\ pool' = st.pool
     /\ releaseCount' = st.releaseCount
     /\ liveBufs' = st.liveBufs
     /\ warnings' = st.warnings
     /\ pc' = IF crashes THEN "crashed" ELSE after

\* context.queue = wgpuDeviceGetQueue(context.device); return context;
\* The uncaptured-error callback is set and the queue obtained without
\* looking at the device.  The return either constructs the caller's Context
\* in place (elide) or copies the local with the implicit copy constructor
\* and destroys the local.
GetQueue(q, elide, crash) ==
  /\ pc = "idle"
  /\ ctxpc = "device"
  /\ IF context.device = 0 /\ crash
     THEN /\ pc' = "crashed"
          /\ UNCHANGED <<ctxpc, context, copied, ctxLog, rootReleases,
                         pending, kernelPool, keys, pool, releaseCount,
                         liveBufs, warnings>>
     ELSE /\ context' = [context EXCEPT
                           !.queue = IF context.device = 0 THEN 0 ELSE q]
          /\ ctxpc' = "returned"
          /\ copied' = ~elide
          /\ IF elide
             THEN UNCHANGED <<pc, ctxLog, rootReleases, pending, kernelPool,
                              keys, pool, releaseCount, liveBufs, warnings>>
             ELSE RunDestructor(context', crash, pc)
  /\ UNCHANGED <<pureVars, kDebug, requestEnded, created, nextBuf, tensorBufs,
                 tensors, kernelVars, deviceVars, asyncVars, futures, hist>>

\* The caller's Context goes out of scope.
ContextDestroy(crash) ==
  /\ pc = "idle"
  /\ ctxpc = "returned"
  /\ ctxpc' = "destroyed"
  /\ RunDestructor(context, crash, "done")
  /\ hist' = NoHist
  /\ UNCHANGED <<pureVars, kDebug, context, requestEnded, copied, created,
                 nextBuf, tensorBufs, tensors, kernelVars, deviceVars,
                 asyncVars, futures>>

\* ---------------------------------------------------------------- Kernel
\* Tensor values the caller may pass on: returned by CreateTensor and whose
\* buffer has not been released.
LiveTensors == {t \in tensors : t.buffer \in liveBufs}
InputLists == UNION {[1..n -> LiveTensors] : n \in 1..MaxInputs}

\* (variant) the re-encoded command buffer is not stored in the kernel
ResetCommandBufferKeepsOld(kernel) ==
  IF kernel.commandBuffer = 0 THEN [kernel EXCEPT !.commandBuffer = nextCmd]
  ELSE kernel

\* (variant) every encoding counts one more binding in the kernel
ResetCommandBufferAddsBinding(kernel) ==
  [kernel EXCEPT !.commandBuffer = nextCmd,
                 !.numBindings = kernel.numBindings + 1]

\* ResetCommandBuffer: a new command buffer is encoded and stored in the
\* kernel; nothing else of the kernel is assigned.
ResetCommandBufferBody(kernel) == [kernel EXCEPT !.commandBuffer = nextCmd]

ResetCommandBuffer(k) ==
  /\ pc = "idle"
  /\ k \in 1..Len(kernels)
  /\ nextCmd <= MaxCmds
  /\ kernels' = [kernels EXCEPT ![k] = ResetCommandBufferBody(kernels[k])]
  /\ nextCmd' = nextCmd + 1
  /\ reencoded' = reencoded \cup {k}
  /\ hist' = NoHist
  /\ UNCHANGED <<pureVars, ctxVars, buildVars, pc, poolVars, submitCount,
                 deviceVars, asyncVars, futures>>

\* An operation on the device queue.  expect is what the host last wrote to
\* each buffer the operation reads, as known when it was submitted.
QueueItem(kind, cmd, bufs, data, dst) ==
  [kind |-> kind, cmd |-> cmd, bufs |-> bufs, data |-> data, dst |-> dst,
   expect |-> [i \in 1..Len(bufs) |-> lastIssued[bufs[i]]]]

\* size_t arithmetic, on words of SizeBits bits
SizeMax == 2 ^ SizeBits - 1
WordAdd(x, y) == (x + y) % (2 ^ SizeBits)
WordSub(x, y) == (x - y) % (2 ^ SizeBits)

\* Shape::operator[] (index from 0): data is zero beyond the dimensions
\* given; the assert on the rank is compiled out when NDEBUG is defined.
ShapeAt(shape, index) == IF index < Len(shape) THEN shape[index + 1] ELSE 0
UnitShape == <<1, 1, 1>>

\* (nThreads[axis] + (workgroupSize[axis] - 1)) / workgroupSize[axis]
Workgroups(t, w) == WordAdd(t, WordSub(w, 1)) \div w

\* The device objects CreateKernel creates, in the order of the calls
Sites == <<"layout", "paramsBuffer", "bindGroup", "pipelineLayout",
          "shaderModule", "pipeline">>
SiteSet == {Sites[i] : i \in 1..Len(Sites)}

\* (variant) the parameter binding comes first and is storage-typed
LayoutEntriesParamFirst(inputs, paramsSize) ==
  [i \in 1..(Len(inputs) + (IF paramsSize > 0 THEN 1 ELSE 0)) |->
     IF i = 1 /\ paramsSize > 0
     THEN [binding |-> 0, type |-> "Storage", minBindingSize |-> paramsSize]
     ELSE [binding |-> i - 1, type |-> "Storage",
           minBindingSize |->
             inputs[IF paramsSize > 0 THEN i - 1 ELSE i].size]]

\* bgLayoutEntries: one storage entry per input tensor at binding i, and,
\* when paramsSize > 0, a uniform entry at paramIndex = numBindings - 1
LayoutEntries(inputs, paramsSize) ==
  LET numTensors == Len(inputs)
      numBindings == IF paramsSize > 0 THEN numTensors + 1 ELSE numTensors
      paramIndex == numBindings - 1
  IN [i \in 1..numBindings |->
        IF i - 1 < numTensors
        THEN [binding |-> i - 1, type |-> "Storage",
              minBindingSize |-> inputs[i].size]
        ELSE [binding |-> paramIndex, type |-> "Uniform",
              minBindingSize |-> paramsSize]]

\* The address of a local variable of a function that has returned
DeadLocal == 0

\* CreateKernel(ctx, shader, inputs, numTensors, nThreads, params,
\* paramsSize).  params is the parameter block (empty when paramsSize is 0),
\* workgroupSize is shader.workgroupSize.  null names the device object
\* whose creation fails ("none" when all succeed); no result is looked at,
\* so a null handle is passed on to the calls that use it, each of which
\* either brings the process down (crash) or yields null in turn.
CreateKernel(inputs, params, nThreads, workgroupSize, null, crash, elide) ==
  LET numTensors == Len(inputs)
      paramsSize == Len(params)
      hasParams == paramsSize > 0
      numBindings == IF hasParams THEN numTensors + 1 ELSE numTensors
      failed == IF null = "paramsBuffer" /\ ~hasParams THEN "none" ELSE null
      \* assert(nThreads.rank == 3)
      aborts == kDebug /\ Len(nThreads) # 3
      crashes == ~aborts /\ failed # "none" /\ crash
      bgLayout == IF failed = "layout" THEN 0 ELSE 1
      paramsBuffer == IF failed = "paramsBuffer" THEN 0 ELSE nextBuf
      bindGroup == IF failed = "bindGroup" \/ bgLayout = 0
                      \/ (hasParams /\ paramsBuffer = 0)
                   THEN 0 ELSE 1
      pipelineLayout == IF failed = "pipelineLayout" \/ bgLayout = 0
                        THEN 0 ELSE 1
      shaderModule == IF failed = "shaderModule" THEN 0 ELSE 1
      computePipeline == IF failed = "pipeline" \/ pipelineLayout = 0
                            \/ shaderModule = 0
                         THEN 0 ELSE 1
      buffers == [i \in 1..numBindings |->
                    IF i <= numTensors THEN inputs[i].buffer
                    ELSE paramsBuffer]
      bufferSizes == [i \in 1..numBindings |->
                        IF i <= numTensors THEN inputs[i].size
                        ELSE paramsSize]
      written == hasParams /\ paramsBuffer # 0
      kernel == [buffers |-> buffers,
                 bufferSizes |-> bufferSizes,
                 numBindings |-> numBindings,
                 nWorkgroups |->
                   [a \in 1..3 |-> Workgroups(ShapeAt(nThreads, a - 1),
                                              ShapeAt(workgroupSize, a - 1))],
                 bindGroup |-> bindGroup,
                 computePipeline |-> computePipeline,
                 commandBuffer |-> 0]
  IN /\ pc = "idle"
     /\ Len(kernels) < MaxKernels
     /\ nextCmd <= MaxCmds
     /\ hasParams => (nextBuf <= MaxBuffers /\ Len(queue) < MaxQueue)
     /\ hist' = NoHist
     /\ IF aborts \/ crashes
        THEN /\ pc' = IF aborts THEN "aborted" ELSE "crashed"
             /\ UNCHANGED <<kernelVars, buildVars, nextBuf, liveBufs, content,
                            queue, lastIssued>>
        ELSE /\ pc' = pc
             /\ kernels' = Append(kernels, ResetCommandBufferBody(kernel))
             /\ nextCmd' = nextCmd + 1
             /\ reencoded' = reencoded \cup {Len(kernels')}
             /\ submitCount' = submitCount
             \* ctx.kernelPool.data.insert(&op): op is the local the function
             \* returns by value.  When the copy is elided, op is the caller's
             \* Kernel; otherwise op is destroyed at the return and the
             \* address registered is that of no Kernel (DeadLocal).
             /\ kernelPool' = kernelPool \cup
                                {IF elide THEN Len(kernels') ELSE DeadLocal}
             /\ created' = [inputs |-> inputs,
                            params |-> params,
                            numTensors |-> numTensors,
                            paramsSize |-> paramsSize,
                            nThreads |-> nThreads,
                            workgroupSize |-> workgroupSize,
                            bgLayoutEntries |->
                              LayoutEntries(inputs, paramsSize),
                            bindGroupEntries |->
                              [i \in 1..numBindings |->
                                 [binding |-> i - 1, buffer |-> buffers[i],
                                  size |-> bufferSizes[i]]]]
             \* the parameter buffer and its wgpuQueueWriteBuffer
             /\ nextBuf' = IF written THEN nextBuf + 1 ELSE nextBuf
             /\ liveBufs' = IF written THEN liveBufs \cup {paramsBuffer}
                            ELSE liveBufs
             /\ content' = IF written
                           THEN [content EXCEPT
                                   ![paramsBuffer] = Zeros(paramsSize)]
                           ELSE content
             /\ queue' = IF written
                         THEN Append(queue, QueueItem("write", 0,
                                              <<paramsBuffer>>, params, 0))
                         ELSE queue
             /\ lastIssued' = IF written
                              THEN [lastIssued EXCEPT ![paramsBuffer] = params]
                              ELSE lastIssued
     /\ UNCHANGED <<pureVars, ctxVars, releaseCount, tensorBufs, pool,
                    tensors, warnings, keys, callbacks, asyncVars, futures>>

\* ----------------------------------------------------------------- queue
\* wgpuQueueOnSubmittedWorkDone: the callback becomes ready once everything
\* on the queue at registration has executed (ahead = 0).
WorkDoneCallback(kind, promise, ahead) ==
  [kind |-> kind, promise |-> promise, ahead |-> ahead]

\* (variant) the promise is set by DispatchKernel itself
DispatchKernelSetsPromise(k) ==
  /\ pc = "idle"
  /\ k \in 1..Len(kernels)
  /\ nextPromise <= MaxPromises
  /\ Len(queue) < MaxQueue
  /\ LET kernel == kernels[k]
         promise == nextPromise
     IN /\ queue' = Append(queue, QueueItem("kernel", kernel.commandBuffer,
                                            kernel.buffers, << >>, 0))
        /\ submitCount' = [submitCount EXCEPT ![kernel.commandBuffer] = @ + 1]
        /\ callbacks' = callbacks
        /\ resolved' = resolved \cup {promise}
        /\ setCount' = [setCount EXCEPT ![promise] = @ + 1]
        /\ futures' = futures \cup {promise}
        /\ reencoded' = reencoded \ {k}
        /\ nextPromise' = nextPromise + 1
        /\ lastIssued' = [b \in Handles |->
                            IF \E i \in 1..Len(kernel.buffers) :
                                 kernel.buffers[i] = b
                            THEN Unknown ELSE lastIssued[b]]
  /\ hist' = NoHist
  /\ UNCHANGED <<pureVars, ctxVars, buildVars, pc, poolVars, kernels, nextCmd,
                 content, waiting, op, dest, argCopy>>

\* DispatchKernel: submit kernel.commandBuffer, register the work-done
\* callback holding the caller's promise, and return.
DispatchKernel(k) ==
  /\ pc = "idle"
  /\ k \in 1..Len(kernels)
  /\ nextPromise <= MaxPromises
  /\ Len(queue) < MaxQueue
  /\ LET kernel == kernels[k]
         promise == nextPromise
     IN /\ queue' = Append(queue, QueueItem("kernel", kernel.commandBuffer,
                                            kernel.buffers, << >>, 0))
        /\ submitCount' = [submitCount EXCEPT ![kernel.commandBuffer] = @ + 1]
        /\ callbacks' = callbacks \cup
                          {WorkDoneCallback("dispatch", promise, Len(queue'))}
        /\ futures' = futures \cup {promise}
        /\ reencoded' = reencoded \ {k}
        /\ nextPromise' = nextPromise + 1
        \* the shader may write any buffer it is bound to
        /\ lastIssued' = [b \in Handles |->
                            IF \E i \in 1..Len(kernel.buffers) :
                                 kernel.buffers[i] = b
                            THEN Unknown ELSE lastIssued[b]]
  /\ hist' = NoHist
  /\ UNCHANGED <<pureVars, ctxVars, buildVars, pc, poolVars, kernels, nextCmd,
                 content, waiting, resolved, setCount, op, dest, argCopy>>

\* (variant) the host data is stored into the buffer at once, outside the
\* queue's order
ToGPUUnordered(data, tensor) ==
  /\ pc = "idle"
  /\ Len(queue) < MaxQueue
  /\ content' = [content EXCEPT ![tensor.buffer] = data]
  /\ lastIssued' = [lastIssued EXCEPT ![tensor.buffer] = data]
  /\ hist' = NoHist
  /\ UNCHANGED <<pureVars, ctxVars, buildVars, pc, poolVars, kernelVars,
                 queue, callbacks, asyncVars, futures>>

\* ToGPU(ctx, data, tensor): one wgpuQueueWriteBuffer of tensor.data.size bytes
ToGPU(data, tensor) ==
  /\ pc = "idle"
  /\ Len(queue) < MaxQueue
  /\ queue' = Append(queue, QueueItem("write", 0, <<tensor.buffer>>, data, 0))
  /\ lastIssued' = [lastIssued EXCEPT ![tensor.buffer] = data]
  /\ hist' = NoHist
  /\ UNCHANGED <<pureVars, ctxVars, buildVars, pc, poolVars, kernelVars,
                 content, callbacks, asyncVars, futures>>

\* ------------------------------------------------------------------ ToCPU
\* ToCPU up to its call of Wait: create the readback buffer, encode and
\* submit the copy, register the work-done callback.  form is "pointer" for
\* ToCPU(ctx, tensor, float*, size) and "array" for the std::array overload,
\* whose parameter is a copy of the caller's array.
ToCPU(tensor, form) ==
  /\ pc = "idle"
  /\ nextBuf <= MaxBuffers
  /\ nextCmd <= MaxCmds
  /\ nextPromise <= MaxPromises
  /\ Len(queue) < MaxQueue
  /\ LET readbackBuffer == nextBuf
         bufferSize == tensor.size
         commandBuffer == nextCmd
         promise == nextPromise
     IN /\ nextBuf' = nextBuf + 1
        /\ liveBufs' = liveBufs \cup {readbackBuffer}
        /\ content' = [content EXCEPT ![readbackBuffer] = Zeros(bufferSize)]
        /\ nextCmd' = nextCmd + 1
        /\ nextPromise' = nextPromise + 1
        /\ queue' = Append(queue, QueueItem("copy", commandBuffer,
                                            <<tensor.buffer>>, << >>,
                                            readbackBuffer))
        /\ submitCount' = [submitCount EXCEPT ![commandBuffer] = @ + 1]
        /\ reencoded' = reencoded
        /\ callbacks' = callbacks \cup
                          {WorkDoneCallback("tocpu", promise, Len(queue'))}
        /\ op' = [stage |-> "submitted", readbackBuffer |-> readbackBuffer,
                  bufferSize |-> bufferSize, promise |-> promise,
                  output |-> IF form = "array" THEN "argCopy" ELSE "dest",
                  tensor |-> tensor.buffer,
                  written |-> lastIssued[tensor.buffer]]
        /\ dest' = Zeros(bufferSize)
        /\ argCopy' = IF form = "array" THEN dest' ELSE << >>
        /\ waiting' = [promise |-> promise, inToCPU |-> TRUE]
        /\ hist' = NoHist
  /\ pc' = "wait"
  /\ UNCHANGED <<pureVars, ctxVars, buildVars, releaseCount, tensorBufs, pool,
                 tensors, warnings, keys, kernels, resolved, setCount,
                 lastIssued, futures>>

\* Wait(ctx, future) called by the caller on the future of a dispatch
Wait(promise) ==
  /\ pc = "idle"
  /\ pc' = "wait"
  /\ waiting' = [promise |-> promise, inToCPU |-> FALSE]
  /\ hist' = NoHist
  /\ UNCHANGED <<pureVars, ctxVars, buildVars, poolVars, kernelVars,
                 deviceVars, nextPromise, resolved, setCount, op, dest,
                 argCopy, futures>>

\* promise->set_value() on each of the promises
SetValues(promises) ==
  [p \in Promises |-> IF p \in promises THEN setCount[p] + 1 ELSE setCount[p]]

\* (variant) work-done callbacks stay registered after they have run
ProcessEventsKeepsCallbacks ==
  LET ready == {c \in callbacks : c.ahead = 0}
      mapDone == op.stage = "mapped"
      mapped == content[op.readbackBuffer]
  IN /\ callbacks' = callbacks \ {c \in ready : c.kind = "tocpu"}
     /\ resolved' = resolved
                    \cup {c.promise : c \in {r \in ready : r.kind = "dispatch"}}
                    \cup (IF mapDone THEN {op.promise} ELSE {})
     /\ setCount' =
          SetValues({c.promise : c \in {r \in ready : r.kind = "dispatch"}}
                    \cup (IF mapDone THEN {op.promise} ELSE {}))
     /\ op' = IF \E c \in ready : c.kind = "tocpu"
              THEN [op EXCEPT !.stage = "mapPending"]
              ELSE IF mapDone THEN [op EXCEPT !.stage = "copied"]
              ELSE op
     /\ dest' = IF mapDone /\ op.output = "dest" THEN mapped ELSE dest
     /\ argCopy' = IF mapDone /\ op.output = "argCopy" THEN mapped
                   ELSE argCopy

\* (variant) the work-done callback copies out of the readback buffer
\* itself instead of requesting the mapping
ProcessEventsCopiesUnmapped ==
  LET ready == {c \in callbacks : c.ahead = 0}
      copyNow == \E c \in ready : c.kind = "tocpu"
      mapped == content[op.readbackBuffer]
  IN /\ callbacks' = callbacks \ ready
     /\ resolved' = resolved \cup {c.promise : c \in ready}
     /\ setCount' = SetValues({c.promise : c \in ready})
     /\ op' = IF copyNow THEN [op EXCEPT !.stage = "mapPending"] ELSE op
     /\ dest' = IF copyNow /\ op.output = "dest" THEN mapped ELSE dest
     /\ argCopy' = IF copyNow /\ op.output = "argCopy" THEN mapped
                   ELSE argCopy

\* (variant) the map callback copies the data but never sets the promise
ProcessEventsForgetsPromise ==
  LET ready == {c \in callbacks : c.ahead = 0}
      mapDone == op.stage = "mapped"
      mapped == content[op.readbackBuffer]
  IN /\ callbacks' = callbacks \ ready
     /\ resolved' = resolved
                    \cup {c.promise : c \in {r \in ready : r.kind = "dispatch"}}
     /\ setCount' =
          SetValues({c.promise : c \in {r \in ready : r.kind = "dispatch"}})
     /\ op' = IF \E c \in ready : c.kind = "tocpu"
              THEN [op EXCEPT !.stage = "mapPending"]
              ELSE IF mapDone THEN [op EXCEPT !.stage = "copied"]
              ELSE op
     /\ dest' = IF mapDone /\ op.output = "dest" THEN mapped ELSE dest
     /\ argCopy' = IF mapDone /\ op.output = "argCopy" THEN mapped
                   ELSE argCopy

\* wgpuInstanceProcessEvents: every ready work-done callback and the map
\* callback, if the mapping has completed, run now.
\*  - DispatchKernel's callback: promise->set_value()
\*  - ToCPU's work-done callback: wgpuBufferMapAsync on the readback buffer
\*  - ToCPU's map callback: memcpy to data->output, unmap, set_value()
ProcessEvents ==
  LET ready == {c \in callbacks : c.ahead = 0}
      mapDone == op.stage = "mapped"
      mapped == content[op.readbackBuffer]
  IN /\ callbacks' = callbacks \ ready
     /\ resolved' = resolved
                    \cup {c.promise : c \in {r \in ready : r.kind = "dispatch"}}
                    \cup (IF mapDone THEN {op.promise} ELSE {})
     /\ setCount' =
          SetValues({c.promise : c \in {r \in ready : r.kind = "dispatch"}}
                    \cup (IF mapDone THEN {op.promise} ELSE {}))
     /\ op' = IF \E c \in ready : c.kind = "tocpu"
              THEN [op EXCEPT !.stage = "mapPending"]
              ELSE IF mapDone THEN [op EXCEPT !.stage = "copied"]
              ELSE op
     /\ dest' = IF mapDone /\ op.output = "dest" THEN mapped ELSE dest
     /\ argCopy' = IF mapDone /\ op.output = "argCopy" THEN mapped
                   ELSE argCopy

\* one iteration of Wait's loop: the future is not ready, pump events
WaitPump ==
  /\ pc = "wait"
  /\ waiting.promise \notin resolved
  /\ ProcessEvents
  /\ UNCHANGED <<pureVars, ctxVars, buildVars, pc, waiting, poolVars,
                 kernelVars, content, queue, lastIssued, nextPromise, hist,
                 futures>>

\* Wait returns to the caller: the future is ready
WaitReturn ==
  /\ pc = "wait"
  /\ ~waiting.inToCPU
  /\ waiting.promise \in resolved
  /\ pc' = "idle"
  /\ waiting' = NoWait
  /\ UNCHANGED <<pureVars, ctxVars, buildVars, poolVars, kernelVars,
                 deviceVars, nextPromise, resolved, setCount, op, dest,
                 argCopy, hist, futures>>

\* ToCPU returns: Wait has returned, CopyOp and the by-value parameter go
\* out of scope; the caller's array is no longer tracked after the return.
ToCPUReturn ==
  /\ pc = "wait"
  /\ waiting.inToCPU
  /\ waiting.promise \in resolved
  /\ pc' = "idle"
  /\ waiting' = NoWait
  /\ op' = NoOp
  /\ argCopy' = << >>
  /\ dest' = << >>
  /\ UNCHANGED <<pureVars, ctxVars, buildVars, poolVars, kernelVars,
                 deviceVars, nextPromise, resolved, setCount, hist, futures>>

\* ----------------------------------------------------------------- device
\* The device executes the operation at the head of the queue.
DeviceExecute ==
  /\ queue # << >>
  /\ LET item == Head(queue)
         bound == {item.bufs[i] : i \in 1..Len(item.bufs)}
     IN /\ \/ /\ item.kind = "write"
              /\ content' = [content EXCEPT ![item.bufs[1]] = item.data]
           \/ /\ item.kind = "copy"
              /\ content' = [content EXCEPT ![item.dst] = content[item.bufs[1]]]
           \/ /\ item.kind = "kernel"
              /\ \E w \in [bound -> Arrays(MaxElems)] :
                   content' = [b \in Handles |->
                                 IF b \in bound
                                 THEN [i \in 1..Len(content[b]) |-> w[b][i]]
                                 ELSE content[b]]
  /\ queue' = Tail(queue)
  /\ callbacks' = {[c EXCEPT !.ahead = IF @ > 0 THEN @ - 1 ELSE 0] :
                     c \in callbacks}
  /\ UNCHANGED <<pureVars, ctxVars, buildVars, pc, poolVars, kernelVars,
                 lastIssued, asyncVars, hist, futures>>

\* The device completes the read-mapping requested by wgpuBufferMapAsync.
DeviceMap ==
  /\ op.stage = "mapPending"
  /\ op' = [op EXCEPT !.stage = "mapped"]
  /\ UNCHANGED <<pureVars, ctxVars, buildVars, pc, poolVars, kernelVars,
                 deviceVars, waiting, nextPromise, resolved, setCount, dest,
                 argCopy, hist, futures>>

\* ---------------------------------------------------------- CreateShader
\* Strings are sequences of characters.  The placeholders
\* "{{workgroupSize}}" and "{{precision}}" are written "{w}" and "{p}".
WorkgroupSizeToken == <<"{", "w", "}">>
PrecisionToken == <<"{", "p", "}">>
TemplateChars == {"{", "}", "w", "p"}
Templates == UNION {[1..n -> TemplateChars] : n \in 0..MaxLen}

\* std::string::npos
npos == -1

\* std::to_string(size_t)
Digit(d) == <<"0", "1", "2", "3", "4", "5", "6", "7", "8", "9">>[d + 1]
RECURSIVE to_string(_)
to_string(n) ==
  IF n < 10 THEN <<Digit(n)>> ELSE to_string(n \div 10) \o <<Digit(n % 10)>>

\* ToString(const Shape &): the dimensions, separated by ", "
RECURSIVE ToStringFrom(_, _)
ToStringFrom(shape, i) ==
  IF i > Len(shape) THEN << >>
  ELSE to_string(shape[i])
       \o (IF i < Len(shape) THEN <<",", " ">> ELSE << >>)
       \o ToStringFrom(shape, i + 1)
ToStringShape(shape) == ToStringFrom(shape, 1)

\* ToString(NumType)
ToStringNumType(type) ==
  IF type = "kf32" THEN <<"f", "3", "2">>
  ELSE <<"u", "n", "k", "n", "o", "w", "n">>

\* str.find(from, start_pos), positions counted from 0
Find(str, from, start_pos) ==
  LET at == {i \in start_pos..(Len(str) - Len(from)) :
               SubSeq(str, i + 1, i + Len(from)) = from}
  IN IF at = {} THEN npos ELSE CHOOSE i \in at : \A j \in at : i <= j

\* str.replace(pos, len, to)
Replace(str, pos, len, to) ==
  SubSeq(str, 1, pos) \o to \o SubSeq(str, pos + len + 1, Len(str))

\* (variant) the search resumes from.length() characters too far
ReplaceAllSkipsAhead(str, from, to, start_pos) ==
  LET found == Find(str, from, start_pos)
  IN IF found = npos THEN [str |-> str, start_pos |-> npos]
     ELSE [str |-> Replace(str, found, Len(from), to),
           start_pos |-> found + Len(to) + Len(from)]

\* One evaluation of ReplaceAll's loop condition and, if from is found, of
\* its body: the occurrence is replaced and the search resumes behind the
\* text put in.
ReplaceAll(str, from, to, start_pos) ==
  LET found == Find(str, from, start_pos)
  IN IF found = npos THEN [str |-> str, start_pos |-> npos]
     ELSE [str |-> Replace(str, found, Len(from), to),
           start_pos |-> found + Len(to)]

\* After std::string codeString(shaderTemplate)
ShaderAt(shaderTemplate, workgroupSize) ==
  [shaderTemplate |-> shaderTemplate, workgroupSize |-> workgroupSize,
   codeString |-> shaderTemplate, start_pos |-> 0, at |-> "workgroupSize"]

\* CreateShader, one iteration of the running ReplaceAll at a time: first
\* the workgroup-size placeholder, then the precision placeholder, then the
\* ShaderCode is returned.
CreateShader ==
  /\ shader.at \in {"workgroupSize", "precision"}
  /\ LET first == shader.at = "workgroupSize"
         from == IF first THEN WorkgroupSizeToken ELSE PrecisionToken
         to == IF first THEN ToStringShape(shader.workgroupSize)
               ELSE ToStringNumType("kf32")
         r == ReplaceAll(shader.codeString, from, to, shader.start_pos)
     IN shader' = IF r.start_pos = npos
                  THEN [shader EXCEPT
                          !.start_pos = 0,
                          !.at = IF first THEN "precision" ELSE "returned"]
                  ELSE [shader EXCEPT !.codeString = r.str,
                                      !.start_pos = r.start_pos]
  /\ UNCHANGED <<sized, ctxVars, buildVars, pc, poolVars, kernelVars,
                 deviceVars, asyncVars, futures, hist>>

\* ------------------------------------------------------------------ Shape
\* Shape::kMaxRank
kMaxRank == 8
\* sizeof(float)
SizeofFloat == 4
WordMul(x, y) == (x * y) % (2 ^ SizeBits)

\* The loop of size() and of CreateTensor: numels *= shape.data[i] for the
\* dimensions i (from 1 here) up to the rank, in size_t.
RECURSIVE sizeLoop(_, _, _)
sizeLoop(shape, i, numels) ==
  IF i > Len(shape) THEN numels
  ELSE sizeLoop(shape, i + 1, WordMul(numels, shape[i]))

\* (variant) numels starts at 0
ShapeSizeFromZero(shape) == sizeLoop(shape, 1, 0)

\* size(const Shape &)
ShapeSize(shape) == sizeLoop(shape, 1, 1)

\* CreateTensor: size = dtype == kf32 ? sizeof(float) * numElements : 0
TensorByteSize(shape, dtype) ==
  IF dtype = "kf32" THEN WordMul(SizeofFloat, sizeLoop(shape, 1, 1)) ELSE 0

SizedAt(shape) == [shape |-> shape, numels |-> 0, bytes |-> 0, at |-> "start"]

\* size(shape) and the byte size CreateTensor computes for shape and kf32
ComputeSize ==
  /\ sized.at = "start"
  /\ sized' = [sized EXCEPT !.numels = ShapeSize(sized.shape),
                            !.bytes = TensorByteSize(sized.shape, "kf32"),
                            !.at = "done"]
  /\ UNCHANGED <<shader, ctxVars, buildVars, pc, poolVars, kernelVars,
                 deviceVars, asyncVars, futures, hist>>

\* The tensor pool on its own: creation, explicit frees and teardown.
NextPool ==
  \/ \E n \in Sizes : CreateTensor(n, FALSE)
  \/ \E t \in tensors \cup {NullTensor} : FreeTensor(t)
  \/ TensorPoolDestroy

SpecPool == Init /\ [][NextPool]_vars

\* Kernels, transfers and the device timeline over the tensors created.
Next ==
  \/ \E n \in Sizes :
       Cardinality(tensors) < MaxTransferTensors /\ CreateTensor(n, FALSE)
  \/ \E inputs \in InputLists : \E elide \in BOOLEAN :
       CreateKernel(inputs, << >>, UnitShape, UnitShape, "none", FALSE, elide)
  \/ \E k \in 1..MaxKernels : ResetCommandBuffer(k)
  \/ \E k \in 1..MaxKernels : DispatchKernel(k)
  \/ \E t \in LiveTensors : \E data \in Arrays(t.size) : ToGPU(data, t)
  \/ \E t \in LiveTensors : \E form \in {"pointer", "array"} : ToCPU(t, form)
  \/ \E p \in futures : Wait(p)
  \/ WaitPump
  \/ WaitReturn
  \/ ToCPUReturn
  \/ DeviceExecute
  \/ DeviceMap

Spec == Init /\ [][Next]_vars

\* The device makes progress on submitted work and on requested mappings,
\* and a caller inside Wait keeps running its loop.
SpecLive ==
  /\ Init /\ [][Next]_vars
  /\ WF_vars(DeviceExecute)
  /\ WF_vars(DeviceMap)
  /\ WF_vars(WaitPump)
  /\ WF_vars(WaitReturn)
  /\ WF_vars(ToCPUReturn)

\* CreateContext, use of the returned Context, and its destruction, in
\* either build.  The Context is used only while it has a device and a queue.
Usable ==
  /\ ctxpc = "returned"
  /\ context.device # 0
  /\ context.queue # 0
  /\ rootReleases["device"] = 0

NextContext ==
  \/ \E instance \in {0, 1} : CreateInstance(instance)
  \/ \E o \in Outcomes : \E crash \in BOOLEAN : RequestAdapter(o, crash)
  \/ \E o \in Outcomes : \E crash \in BOOLEAN : RequestDevice(o, crash)
  \/ \E q \in {0, 1} : \E elide, crash \in BOOLEAN : GetQueue(q, elide, crash)
  \/ \E n \in Sizes :
       /\ Usable
       /\ Cardinality(tensors) < MaxTransferTensors
       /\ CreateTensor(n, FALSE)
  \/ \E inputs \in InputLists : \E elide \in BOOLEAN :
       /\ Usable
       /\ CreateKernel(inputs, << >>, UnitShape, UnitShape, "none", FALSE,
                       elide)
  \/ \E k \in 1..MaxKernels : Usable /\ DispatchKernel(k)
  \/ \E crash \in BOOLEAN : ContextDestroy(crash)

SpecContext == InitContext /\ [][NextContext]_vars

\* Kernel construction: the calls of CreateKernel a caller can make on the
\* tensors it has created, one kernel built per run, in either build.
ThreadCounts == {0, 1, 2, 1000, SizeMax - 1, SizeMax}
WorkgroupSizes == {1, 2, 256}
AxisShape(axis, v) == [i \in 1..3 |-> IF i = axis THEN v ELSE 1]
ParamBlocks == UNION {Arrays(n) : n \in 0..MaxParams}
Build(params, nThreads, workgroupSize, null, crash) ==
  [params |-> params, nThreads |-> nThreads,
   workgroupSize |-> workgroupSize, null |-> null, crash |-> crash]
Builds ==
  {Build(params, UnitShape, UnitShape, "none", FALSE) :
     params \in ParamBlocks}
  \cup {Build(<< >>, AxisShape(g[1], g[2]), AxisShape(g[1], g[3]), "none",
               FALSE) : g \in (1..3) \X ThreadCounts \X WorkgroupSizes}
  \cup {Build(<< >>, [i \in 1..r |-> 2], UnitShape, "none", FALSE) :
          r \in 0..MaxRank}
  \cup {Build(f[1], UnitShape, UnitShape, f[2], f[3]) :
          f \in {<< >>, Zeros(1)} \X SiteSet \X BOOLEAN}

NextKernel ==
  \/ \E n \in Sizes : \E null \in BOOLEAN :
       Cardinality(tensors) < MaxTransferTensors /\ CreateTensor(n, null)
  \/ \E inputs \in InputLists : \E b \in Builds : \E elide \in BOOLEAN :
       /\ kernels = << >>
       /\ CreateKernel(inputs, b.params, b.nThreads, b.workgroupSize,
                       b.null, b.crash, elide)

SpecKernel == InitAnyBuild /\ [][NextKernel]_vars

\* Kernels over tensors whose buffers the caller frees, before or after the
\* kernel is built, re-encoded or dispatched, and the teardown of the pool.
NextBorrow ==
  \/ \E n \in Sizes :
       Cardinality(tensors) < MaxTransferTensors /\ CreateTensor(n, FALSE)
  \/ \E inputs \in InputLists : \E elide \in BOOLEAN :
       CreateKernel(inputs, << >>, UnitShape, UnitShape, "none", FALSE, elide)
  \/ \E k \in 1..MaxKernels : ResetCommandBuffer(k)
  \/ \E k \in 1..MaxKernels : DispatchKernel(k)
  \/ \E t \in tensors : FreeTensor(t)
  \/ TensorPoolDestroy

SpecBorrow == Init /\ [][NextBorrow]_vars

\* CreateShader on every template, for two workgroup sizes; the loop keeps
\* running until it returns.
InitShader ==
  /\ InitState
  /\ kDebug = TRUE
  /\ ctxpc = "returned"
  /\ context = ReadyContext
  /\ requestEnded = Stages
  /\ sized = NoSized
  /\ shader \in {ShaderAt(t, AxisShape(1, w)) :
                   t \in Templates, w \in {1, 256}}

NextShader == CreateShader

SpecShader == InitShader /\ [][NextShader]_vars /\ WF_vars(NextShader)

\* size() on shapes of rank 0..kMaxRank: every shape of small dimensions up
\* to rank MaxRank, shapes of 2s up to the largest rank, and shapes with
\* dimensions as large as the size type holds.
Shapes ==
  UNION {[1..r -> 0..4] : r \in 0..MaxRank}
  \cup {[i \in 1..r |-> 2] : r \in 0..kMaxRank}
  \cup {<<SizeMax>>}
  \cup {<<a, b>> : a, b \in {2, SizeMax}}

InitSize ==
  /\ InitState
  /\ kDebug = TRUE
  /\ ctxpc = "returned"
  /\ context = ReadyContext
  /\ requestEnded = Stages
  /\ shader = NoShader
  /\ sized \in {SizedAt(shape) : shape \in Shapes}

NextSize == ComputeSize

SpecSize == InitSize /\ [][NextSize]_vars

\* ================================================================ claims
KernelItems == {i \in 1..Len(queue) : queue[i].kind = "kernel"}
CopyPending == \E i \in 1..Len(queue) : /\ queue[i].kind = "copy"
                                        /\ queue[i].dst = op.readbackBuffer

\* C1 (as stated): in any sequence of CreateKernel, DispatchKernel and
\* ResetCommandBuffer no command buffer is submitted to the queue twice.
C1_NeverSubmittedTwice == \A c \in Cmds : submitCount[c] <= 1

\* C1 (amended): a command buffer encoded by CreateKernel or
\* ResetCommandBuffer has not been submitted before the kernel's next
\* dispatch, and a kernel dispatched since its last encoding holds a
\* command buffer that has been submitted; so a dispatch that follows a
\* re-encoding never submits a command buffer a second time.
C1_FreshAfterReencode ==
  \A k \in 1..Len(kernels) :
    /\ k \in reencoded => submitCount[kernels[k].commandBuffer] = 0
    /\ k \notin reencoded => submitCount[kernels[k].commandBuffer] >= 1

\* two dispatches with a re-encoding in between: two command buffers, each
\* submitted once
C1_Witness ==
  /\ futures = {1, 2}
  /\ \A c \in Cmds : submitCount[c] <= 1
  /\ Cardinality({c \in Cmds : submitCount[c] = 1}) = 2

\* C2: in ToCPU the read-mapping of the readback buffer is requested only
\* after the submitted copy has executed and the queue has reported it
\* done, and the destination is not written before the mapping callback
\* has run; it is written by that callback.
C2_ToCPUStagesOrdered ==
  /\ op.stage \in {"mapPending", "mapped", "copied"} =>
       /\ ~CopyPending
       /\ ~\E c \in callbacks : c.promise = op.promise
  /\ op.stage \in {"submitted", "mapPending", "mapped"} =>
       /\ dest = Zeros(op.bufferSize)
       /\ op.output = "argCopy" => argCopy = Zeros(op.bufferSize)
       /\ op.promise \notin resolved
  /\ op.stage = "copied" =>
       /\ op.promise \in resolved
       /\ op.output = "dest" => dest = content[op.readbackBuffer]
       /\ op.output = "argCopy" => argCopy = content[op.readbackBuffer]

C2_Witness ==
  /\ op.stage = "copied"
  /\ op.output = "dest"
  /\ dest # Zeros(op.bufferSize)

\* C3: DispatchKernel returns to the caller with the promise unresolved;
\* the promise of a dispatch is resolved only by a step taken while the
\* caller is inside Wait pumping events, by a work-done callback that is
\* ready, and never while the kernel's submission is still on the queue.
C3_ResolvedOnlyInCallback ==
  /\ [][/\ \A p \in futures' \ futures : p \notin resolved' /\ pc' = "idle"
        /\ \A p \in (resolved' \ resolved) \cap futures :
             /\ pc = "wait"
             /\ \E c \in callbacks : /\ c.promise = p
                                     /\ c.kind = "dispatch"
                                     /\ c.ahead = 0]_vars
  /\ [](Cardinality(KernelItems) <= Cardinality(futures \ resolved))

C3_Witness ==
  /\ futures \cap resolved # {}
  /\ pc = "wait"
  /\ ~waiting.inToCPU

\* C4: a caller that has entered Wait (after DispatchKernel, or inside
\* ToCPU) eventually gets back control, and gets it back only once the
\* future it waits on has been resolved.
C4_WaitReturns ==
  /\ (pc = "wait") ~> (pc = "idle")
  /\ [][pc = "wait" /\ pc' = "idle" => waiting.promise \in resolved]_vars

C4_Witness ==
  /\ pc = "idle"
  /\ futures \cap resolved # {}
  /\ resolved \ futures # {}

\* C5: when ToCPU returns after a ToGPU(A, T) of matching size, the
\* caller's destination equals A, for the pointer form and for the
\* std::array overload.
C5_RoundTrip ==
  (/\ pc = "wait"
   /\ waiting.inToCPU
   /\ waiting.promise \in resolved
   /\ op.written # Unknown) => dest = op.written

\* C6: every copy or kernel the device executes finds, in each buffer it
\* reads, the data of the last ToGPU issued to that buffer before the
\* operation was submitted (a copy moves exactly that data), whatever the
\* interleaving of the caller with the device.
Removed(j) ==
  /\ Len(queue') = Len(queue) - 1
  /\ queue' = [i \in 1..(Len(queue) - 1) |->
                 IF i < j THEN queue[i] ELSE queue[i + 1]]

C6_WriteObservedInOrder ==
  [][\A j \in 1..Len(queue) :
       (Removed(j) /\ queue[j].kind # "write") =>
         \A i \in 1..Len(queue[j].bufs) :
           queue[j].expect[i] # Unknown =>
             /\ content[queue[j].bufs[i]] = queue[j].expect[i]
             /\ queue[j].kind = "copy" =>
                  content'[queue[j].dst] = queue[j].expect[i]]_vars

C6_Witness ==
  /\ op.stage = "mapPending"
  /\ op.written # Unknown
  /\ op.written # Zeros(op.bufferSize)
  /\ content[op.readbackBuffer] = op.written

\* C7: each device buffer is released at most once, FreeTensor releasing
\* nothing when the handle is null or not in the pool.
C7_ReleasedAtMostOnce == \A b \in Handles : releaseCount[b] <= 1

\* C8: the buffers created by CreateTensor and not yet released are exactly
\* the keys of the pool.
C8_PoolHoldsAllocated == (tensorBufs \cap liveBufs) = DOMAIN pool

C11_AbsentFreeIsNoOp ==
  (hist.last = "free" /\ hist.tensor.buffer \notin DOMAIN hist.before) =>
    /\ pc # "crashed"
    /\ "not in pool" \in warnings
    /\ pool = hist.before

\* the same without the outcome of the release call: whenever FreeTensor
\* returns, the warning has been logged and the pool is as it was
C11_PoolUntouched ==
  (/\ hist.last = "free"
   /\ hist.tensor.buffer \notin DOMAIN hist.before
   /\ pc # "crashed") =>
    /\ "not in pool" \in warnings
    /\ pool = hist.before

\* C12 (as stated): inside CreateContext the device is requested only after
\* the adapter callback has fired, and the queue is obtained and the Context
\* returned only after the device callback has fired, whether the API
\* invokes a callback inside the request call or later.
C12_RequestsFollowCallbacks ==
  /\ ctxpc \in {"device", "returned"} => "adapter" \in requestEnded
  /\ ctxpc = "returned" => "device" \in requestEnded

\* C13 (as stated): CreateContext never returns a Context with a null
\* instance, adapter, device or queue; a failed stage ends the process.
C13_NoPartialContext ==
  ctxpc = "returned" => \A h \in RootSet : context[h] # 0

Rank(h) ==
  CASE h = "queue" -> 1
    [] h = "device" -> 2
    [] h = "adapter" -> 3
    [] h = "instance" -> 4
    [] OTHER -> 5
RootEvents == {i \in 1..Len(ctxLog) : ctxLog[i].ev \in {"release", "warn"}}

\* C14: a run of ~Context handles queue, device, adapter, instance in this
\* order; a handle is released when it is non-null and a warning is logged
\* instead when it is null; each release of queue, device or adapter is
\* immediately followed by wgpuInstanceProcessEvents, before the next
\* release; a run that is not cut short handles all four.
C14_ReleaseOrder ==
  /\ \A i, j \in RootEvents :
       i < j => Rank(ctxLog[i].h) < Rank(ctxLog[j].h)
  /\ \A i \in RootEvents :
       /\ ctxLog[i].ev = "release" <=> context[ctxLog[i].h] # 0
       /\ ( /\ ctxLog[i].ev = "release"
            /\ ctxLog[i].h # "instance"
            /\ i < Len(ctxLog) ) => ctxLog[i + 1].ev = "pump"
       /\ ( /\ ctxLog[i].ev = "release"
            /\ ctxLog[i].h # "instance"
            /\ pc # "crashed" ) => i < Len(ctxLog)
  /\ (ctxLog # << >> /\ pc # "crashed") =>
       \A h \in RootSet : \E i \in RootEvents : ctxLog[i].h = h

\* a Context with some null and some acquired handles has been destroyed
C14_Witness ==
  /\ ctxpc = "destroyed"
  /\ pc = "done"
  /\ \E i, j \in RootEvents :
       ctxLog[i].ev = "release" /\ ctxLog[j].ev = "warn"
  /\ \E i \in 1..Len(ctxLog) : ctxLog[i].ev = "pump"

\* C15 (as stated): no root handle is released more than once, and once the
\* Context has been destroyed each handle it acquired has been released
\* exactly once, also when CreateContext's return copied its local.
C15_ReleasedExactlyOnce ==
  /\ \A h \in RootSet : rootReleases[h] <= 1
  /\ (ctxpc = "destroyed" /\ pc = "done") =>
       \A h \in RootSet : context[h] # 0 => rootReleases[h] = 1

\* C16 (as stated): in a run of ~Context the kernel pool's registry is
\* cleared before the device is released.
C16_KernelPoolBeforeDevice ==
  \A i, j \in 1..Len(ctxLog) :
    ( /\ ctxLog[i] = Event("clear", "kernelPool")
      /\ ctxLog[j] = Event("release", "device") ) => i < j

LastKernel == kernels[Len(kernels)]

\* C17: a kernel built from N input tensors has numBindings = N without a
\* parameter block and N + 1 with one; the layout has one entry per binding;
\* the entries of bindings 0..N-1 are storage-typed, and the parameter
\* block's entry, when present, is at binding N and is the only uniform one.
C17_Bindings ==
  created # NoBuild =>
    LET N == created.numTensors
        entries == created.bgLayoutEntries
        uniform == {i \in 1..Len(entries) : entries[i].type = "Uniform"}
    IN /\ LastKernel.numBindings = IF created.paramsSize = 0 THEN N ELSE N + 1
       /\ Len(entries) = LastKernel.numBindings
       /\ \A i \in 1..Len(entries) : entries[i].binding = i - 1
       /\ \A i \in 1..N : entries[i].type = "Storage"
       /\ uniform = IF created.paramsSize = 0 THEN {} ELSE {N + 1}

\* a kernel with an input tensor and a parameter block has been built
C17_Witness ==
  /\ Len(kernels) = 1
  /\ created.numTensors >= 1
  /\ created.paramsSize > 0
  /\ LastKernel.numBindings = created.numTensors + 1

Ceil(t, w) == IF t % w = 0 THEN t \div w ELSE t \div w + 1

\* C18 (as stated): for a rank-3 geometry, on each axis the kernel's
\* nWorkgroups is the ceiling of nThreads / workgroupSize, for every thread
\* count of the size type, 0 and the largest ones included.
C18_CeilDiv ==
  (created # NoBuild /\ Len(created.nThreads) = 3) =>
    \A axis \in 1..3 :
      LastKernel.nWorkgroups[axis] =
        Ceil(created.nThreads[axis], created.workgroupSize[axis])

\* C19 (as stated): CreateKernel builds and registers a kernel only for a
\* dispatch geometry of rank 3.
C19_RankChecked ==
  (kernels # << >> \/ kernelPool # {} \/ created # NoBuild) =>
    Len(created.nThreads) = 3

\* C20 (as stated): no tensor is registered or returned with a null buffer,
\* and no kernel is returned or registered with a null bind group or a null
\* pipeline.
C20_NoNullObjects ==
  /\ \A b \in DOMAIN pool : b # 0
  /\ \A t \in tensors : t.buffer # 0
  /\ \A k \in 1..Len(kernels) :
       kernels[k].bindGroup # 0 /\ kernels[k].computePipeline # 0

StartsWith(s, token) ==
  Len(s) >= Len(token) /\ SubSeq(s, 1, Len(token)) = token
RECURSIVE Substituted(_, _, _)
Substituted(s, w, p) ==
  IF s = << >> THEN << >>
  ELSE IF StartsWith(s, WorkgroupSizeToken)
  THEN w \o Substituted(SubSeq(s, Len(WorkgroupSizeToken) + 1, Len(s)), w, p)
  ELSE IF StartsWith(s, PrecisionToken)
  THEN p \o Substituted(SubSeq(s, Len(PrecisionToken) + 1, Len(s)), w, p)
  ELSE <<Head(s)>> \o Substituted(Tail(s), w, p)

\* C21: CreateShader returns for every template, and the code it returns is
\* the template with every occurrence of the workgroup-size placeholder
\* replaced by the dimensions joined with ", ", every occurrence of the
\* precision placeholder replaced by "f32", and every other character kept
\* in place.
C21_AllReplaced ==
  /\ [](shader.at = "returned" =>
          shader.codeString =
            Substituted(shader.shaderTemplate,
                        ToStringShape(shader.workgroupSize),
                        ToStringNumType("kf32")))
  /\ <>(shader.at = "returned")

\* a template of two adjacent workgroup-size placeholders has been processed
C21_Witness ==
  /\ shader.at = "returned"
  /\ shader.shaderTemplate = WorkgroupSizeToken \o WorkgroupSizeToken
  /\ shader.workgroupSize = <<256, 1, 1>>

RECURSIVE Product(_)
Product(shape) ==
  IF shape = << >> THEN 1 ELSE Head(shape) * Product(Tail(shape))

\* C22 (as stated): size(S) is the product of the dimensions of S and the
\* byte size CreateTensor computes for kf32 is 4 times that product, for
\* every shape of rank 0..8.
C22_SizeIsProductExact ==
  sized.at = "done" =>
    /\ sized.numels = Product(sized.shape)
    /\ sized.bytes = 4 * Product(sized.shape)

\* C22 (amended): size(S) is the product of the dimensions of S reduced
\* modulo 2^SizeBits, hence the product itself whenever that fits the size
\* type (1 for the empty shape, 24 for {2,3,4}); CreateTensor's byte size
\* for kf32 is 4 times the product, reduced likewise.
C22_SizeIsProduct ==
  sized.at = "done" =>
    LET product == Product(sized.shape)
    IN /\ sized.numels = product % (2 ^ SizeBits)
       /\ sized.bytes = (4 * product) % (2 ^ SizeBits)
       /\ product <= SizeMax => sized.numels = product
       /\ 4 * product <= SizeMax => sized.bytes = 4 * product
       /\ sized.shape = << >> => sized.numels = 1
       /\ sized.shape = <<2, 3, 4>> => sized.numels = 24

\* size({2,3,4}) has been computed
C22_Witness ==
  /\ sized.at = "done"
  /\ sized.shape = <<2, 3, 4>>
  /\ sized.numels = 24
  /\ sized.bytes = 96

\* The fields of a Kernel other than its command buffer
KernelFrame(kernel) ==
  [computePipeline |-> kernel.computePipeline, bindGroup |-> kernel.bindGroup,
   nWorkgroups |-> kernel.nWorkgroups, numBindings |-> kernel.numBindings,
   buffers |-> kernel.buffers, bufferSizes |-> kernel.bufferSizes]

\* C23: DispatchKernel and ResetCommandBuffer leave a kernel's
\* computePipeline, bindGroup, nWorkgroups, numBindings, buffers and
\* bufferSizes unchanged; DispatchKernel changes no field at all, and the
\* command buffer is replaced only by ResetCommandBuffer, with a newly encoded
\* one.
C23_KernelFrameKept ==
  [][\A k \in 1..Len(kernels) :
       /\ k <= Len(kernels')
       /\ KernelFrame(kernels'[k]) = KernelFrame(kernels[k])
       /\ submitCount' # submitCount => kernels'[k] = kernels[k]
       /\ kernels'[k].commandBuffer # kernels[k].commandBuffer =>
            /\ k \in reencoded'
            /\ kernels'[k].commandBuffer = nextCmd
            /\ nextCmd' = nextCmd + 1
            /\ submitCount' = submitCount]_vars

\* a kernel has been dispatched, re-encoded and dispatched again
C23_Witness ==
  \E k \in 1..Len(kernels) :
    /\ kernels[k].commandBuffer > 1
    /\ submitCount[kernels[k].commandBuffer] >= 1
    /\ \E c \in 1..MaxCmds :
         c # kernels[k].commandBuffer /\ submitCount[c] >= 1

\* C24 (as stated): the KernelPool entry CreateKernel registers refers to
\* the Kernel the caller received, and after K calls the pool holds K
\* distinct entries, each referring to a live Kernel.
C24_PoolHoldsLiveKernels ==
  (pc = "idle" /\ kernels # << >>) =>
    /\ \A entry \in kernelPool : entry \in 1..Len(kernels)
    /\ Cardinality(kernelPool) = Len(kernels)

\* C25: the teardown of the KernelPool only clears the registry.  Every
\* release a Context teardown makes is of the queue, the device, the adapter
\* or the instance, or of a buffer registered in the TensorPool: no command
\* buffer (submitted or not), bind group or pipeline is released, and the
\* kernels and the submission counts are as they were.
C25_TeardownOnlyClears ==
  [][ctxLog' # ctxLog =>
       /\ \A i \in 1..Len(ctxLog') :
            ctxLog'[i].ev = "release" => ctxLog'[i].h \in RootSet
       /\ \A b \in Handles :
            releaseCount'[b] # releaseCount[b] => b \in DOMAIN pool
       /\ kernels' = kernels
       /\ submitCount' = submitCount
       /\ (\E i \in 1..Len(ctxLog') : ctxLog'[i].ev = "clear") =>
            kernelPool' = {}]_vars

\* a Context with a registered kernel whose command buffer was submitted
\* has been torn down
C25_Witness ==
  /\ ctxpc = "destroyed"
  /\ pc = "done"
  /\ kernelPool = {}
  /\ \E k \in 1..Len(kernels) : submitCount[kernels[k].commandBuffer] >= 1
  /\ \E i \in 1..Len(ctxLog) : ctxLog[i] = Event("clear", "kernelPool")

\* The buffers a kernel binds
BoundBuffers ==
  UNION {{kernels[k].buffers[i] : i \in 1..Len(kernels[k].buffers)} :
           k \in 1..Len(kernels)}

\* What C26 says of one step
OnlyBorrowStep ==
  /\ (kernels' # kernels \/ submitCount' # submitCount) =>
       /\ releaseCount' = releaseCount
       /\ pool' = pool
       /\ liveBufs \subseteq liveBufs'
  /\ releaseCount' # releaseCount =>
       \/ hist'.last \in {"free", "createfree"}
       \/ pc = "idle" /\ pc' = "done"
  /\ \A t \in tensors :
       ( /\ hist' # hist
         /\ hist'.last \in {"free", "createfree"}
         /\ hist'.tensor = t
         /\ pc' = "idle"
         /\ t.buffer \in liveBufs
         /\ t.buffer \in DOMAIN pool ) =>
         /\ releaseCount'[t.buffer] = releaseCount[t.buffer] + 1
         /\ t.buffer \notin DOMAIN pool'
         /\ t.buffer \notin liveBufs'

\* C26: a Kernel only borrows its tensors' buffers.  A step of CreateKernel,
\* ResetCommandBuffer or DispatchKernel releases no buffer and leaves the
\* TensorPool as it is; a buffer is released only in a step of FreeTensor or
\* of the TensorPool's teardown; and FreeTensor of a live registered tensor
\* releases its buffer and erases its entry whether or not a kernel binds it.
C26_KernelsOnlyBorrow == [][OnlyBorrowStep]_vars

\* a kernel that has been dispatched binds a buffer FreeTensor has released
C26_Witness ==
  /\ pc = "idle"
  /\ hist.last = "free"
  /\ \E b \in BoundBuffers :
       /\ releaseCount[b] = 1
       /\ b \notin liveBufs
       /\ b \notin DOMAIN pool
  /\ \E c \in Cmds : submitCount[c] >= 1

\* C27 (as stated): binding i of the layout and of the bind group refers to
\* the i-th input tensor's buffer, with size and minimum binding size equal
\* to the tensor's byte size, in the order given; with a parameter block of
\* size P > 0 a new uniform buffer of size P has been allocated and the P
\* bytes written to it, and it is bound at index N with size P.
C27_BindingsInOrder ==
  created # NoBuild =>
    LET N == created.numTensors
        P == created.paramsSize
        layout == created.bgLayoutEntries
        group == created.bindGroupEntries
    IN /\ \A i \in 1..N :
            /\ layout[i].binding = i - 1
            /\ layout[i].minBindingSize = created.inputs[i].size
            /\ group[i].binding = i - 1
            /\ group[i].buffer = created.inputs[i].buffer
            /\ group[i].size = created.inputs[i].size
            /\ LastKernel.buffers[i] = created.inputs[i].buffer
            /\ LastKernel.bufferSizes[i] = created.inputs[i].size
       /\ P > 0 =>
            /\ Len(group) = N + 1
            /\ group[N + 1].binding = N
            /\ group[N + 1].size = P
            /\ layout[N + 1].minBindingSize = P
            /\ LastKernel.buffers[N + 1] = group[N + 1].buffer
            \* a buffer newly allocated for the block
            /\ group[N + 1].buffer \in liveBufs \ tensorBufs
            /\ Len(content[group[N + 1].buffer]) = P
            \* the block has been written to it
            /\ lastIssued[group[N + 1].buffer] = created.params

\* The same for the calls in which every device object was created
C27_BindingsWhenCreated ==
  (created # NoBuild /\ LastKernel.bindGroup # 0
     /\ LastKernel.computePipeline # 0) => C27_BindingsInOrder

\* C28 (as stated): at the teardown of a Context every tensor buffer still
\* registered in the TensorPool is released before the device and the
\* instance are; no buffer is released after the device has been.
C28_BuffersBeforeDevice ==
  \A i, j \in 1..Len(ctxLog) :
    ( /\ ctxLog[i] = Event("free", "pool")
      /\ keys # {}
      /\ \E b \in keys : releaseCount[b] >= 1
      /\ ctxLog[j] \in {Event("release", "device"),
                        Event("release", "instance")} ) => i < j

\* Buffers that are live and belong neither to a tensor nor to a kernel:
\* the readback buffers of ToCPU
ReadbackBuffers == liveBufs \ (tensorBufs \cup BoundBuffers)

\* C29 (as stated): the readback buffer ToCPU allocates is released by the
\* time ToCPU returns, so whenever no call is in progress no readback buffer
\* is live.
C29_NoReadbackLeak == pc = "idle" => ReadbackBuffers = {}

\* Promises handed out so far
Issued == 1..(nextPromise - 1)

\* C30: every promise is set at most once, a promise whose callback is still
\* outstanding has not been set, a promise is ready exactly if it has been
\* set once, and once ToCPU or a Wait on a dispatch has returned the promise
\* it waited for has been set exactly once; promises never handed out are
\* never set.
C30_SetExactlyOnce ==
  /\ \A p \in Promises : setCount[p] <= 1
  /\ \A p \in Promises : p \in resolved <=> setCount[p] = 1
  /\ \A c \in callbacks : setCount[c.promise] = 0
  /\ \A p \in Promises \ Issued : setCount[p] = 0
  /\ \A p \in Issued \ futures :
       (pc = "idle" \/ waiting.promise # p) => setCount[p] = 1
  /\ (pc = "wait" /\ waiting.promise \in resolved) =>
       setCount[waiting.promise] = 1

\* two dispatches, each with its own promise, have both been resolved
C30_Witness ==
  /\ futures = {1, 2}
  /\ setCount[1] = 1
  /\ setCount[2] = 1
  /\ callbacks = {}
====
